---------------------------- MODULE Spec2Model ----------------------------
(***************************************************************************)
(* A model of qpycr (src/src/qpycr.py): the three functions                *)
(* calculate_avg_cqs, calculate_d_cqs and calculate_dd_cqs, each a call on *)
(* a table of raw Cq readings.                                             *)
(*                                                                         *)
(* Numbers.  A Cq value is a float.  The model keeps the two things the    *)
(* functions depend on: whether a value is NaN, and, when it is not, its   *)
(* exact value as a reduced fraction n/d (rounding is left out).           *)
(* Arithmetic propagates NaN as IEEE-754 does; the pandas reductions       *)
(* `mean` and `std` skip NaN entries (skipna), as pandas does by default.  *)
(*                                                                         *)
(* Library versions.  `np.NaN` (line 116) is read as numpy < 2.0 reads it, *)
(* the float NaN; a missing aggregation column is reported as KeyError.    *)
(***************************************************************************)
EXTENDS Integers, Sequences, FiniteSets, TLC

\* The largest number of rows of a raw readings table.
MaxRows == 3

\* ------------------------------------------------------------------------
\* Floats
\* ------------------------------------------------------------------------

Abs(x) == IF x < 0 THEN -x ELSE x

RECURSIVE GCD(_, _)
GCD(a, b) == IF b = 0 THEN a ELSE GCD(b, a % b)

\* np.NaN
NaN == [nan |-> TRUE, n |-> 0, d |-> 1]

\* The float n/d, d > 0, as a reduced fraction.
Rat(n, d) ==
    LET g == GCD(Abs(n), d)
    IN  [nan |-> FALSE, n |-> n \div g, d |-> d \div g]

\* x + y of two floats: NaN if either is NaN.
Add(x, y) ==
    IF x.nan \/ y.nan THEN NaN ELSE Rat(x.n * y.d + y.n * x.d, x.d * y.d)

\* x - y of two floats: NaN if either is NaN.
Sub(x, y) ==
    IF x.nan \/ y.nan THEN NaN ELSE Rat(x.n * y.d - y.n * x.d, x.d * y.d)

\* x * y of two floats.
Mul(x, y) ==
    IF x.nan \/ y.nan THEN NaN ELSE Rat(x.n * y.n, x.d * y.d)

\* x / k for a positive count k.
DivCount(x, k) ==
    IF x.nan THEN NaN ELSE Rat(x.n, x.d * k)

RECURSIVE SumSeq(_)
SumSeq(xs) ==
    IF xs = << >> THEN Rat(0, 1) ELSE Add(Head(xs), SumSeq(Tail(xs)))

NotNa(x) == ~x.nan

\* The NaN-poisoning mean: the plain sum over every entry, divided by the count.
MeanNoSkip(xs) ==
    IF xs = << >> THEN NaN ELSE DivCount(SumSeq(xs), Len(xs))

\* pandas "mean" of a group: NaN entries are skipped; NaN when nothing is left.
Mean(xs) ==
    LET valid == SelectSeq(xs, NotNa)
    IN  IF valid = << >> THEN NaN ELSE DivCount(SumSeq(valid), Len(valid))

\* pandas "std" of a group (ddof = 1): NaN entries are skipped; NaN with fewer
\* than two entries left.  The value kept is the square of the standard
\* deviation, sum((x - mean)^2) / (n - 1), the square root being irrational.
Std(xs) ==
    LET valid == SelectSeq(xs, NotNa)
        m     == Mean(xs)
        sq    == [i \in 1..Len(valid) |->
                     Mul(Sub(valid[i], m), Sub(valid[i], m))]
    IN  IF Len(valid) < 2 THEN NaN ELSE DivCount(SumSeq(sq), Len(valid) - 1)

\* ------------------------------------------------------------------------
\* The values a call is made with
\* ------------------------------------------------------------------------

\* Sample and target identifiers, each list in lexicographic order (the order
\* a sorted group-by puts its keys in).
SampleOrder == <<"S1", "S2">>
TargetOrder == <<"Actin", "GAPDH", "GeneX">>

Range(s) == {s[i] : i \in DOMAIN s}

Samples == Range(SampleOrder)
Targets == Range(TargetOrder)
CqValues == {NaN, Rat(20, 1), Rat(22, 1)}

AllColumns == {"sample", "target", "cq"}

Readings == [sample : Samples, target : Targets, cq : CqValues]

RowSeqs == UNION {[1..n -> Readings] : n \in 1..MaxRows}

\* A pd.DataFrame with the given columns and rows.  A column that is not in
\* `columns` does not exist: the model never reads a row's field for it.
DataFrame(columns, rows) ==
    [type |-> "DataFrame", columns |-> columns, rows |-> rows]

OneRow == <<[sample |-> "S1", target |-> "Actin", cq |-> Rat(20, 1)]>>

\* Arguments passed as `cqs`: well-formed tables, tables that lack one of the
\* three columns, and a plain list in place of a table.
CqsChoices ==
    {DataFrame(AllColumns, rows) : rows \in RowSeqs}
    \cup {DataFrame(AllColumns \ {c}, OneRow) : c \in AllColumns}
    \cup {[type |-> "list", columns |-> {}, rows |-> OneRow]}

\* Arguments passed as `internal_controls`: lists of target names, and a tuple
\* of target names in place of a list.
InternalControlsChoices ==
    {[type |-> "list", items |-> <<"Actin">>],
     [type |-> "list", items |-> <<"Actin", "GAPDH">>],
     [type |-> "list", items |-> << >>],
     [type |-> "tuple", items |-> <<"Actin">>]}

\* Arguments passed as `calibrator`: a sample of the data, a sample that is not
\* in the data, and an integer in place of a string.
CalibratorChoices ==
    {[type |-> "str", value |-> "S1"],
     [type |-> "str", value |-> "S3"],
     [type |-> "int", value |-> "1"]}

NotPassed == [type |-> "none", items |-> << >>]
NoCalibrator == [type |-> "none", value |-> ""]


\* ------------------------------------------------------------------------
\* What a call produces
\* ------------------------------------------------------------------------

\* The call raised `error` after the steps `steps` had run; no table exists.
Raise(error, steps) == [raised |-> error, rows |-> << >>, steps |-> steps]

\* The call returned the table `rows` after the steps `steps` had run.
Return(rows, steps) == [raised |-> "", rows |-> rows, steps |-> steps]

NoResult == [raised |-> "", rows |-> << >>, steps |-> << >>]

\* isinstance(cqs, pd.DataFrame)
IsDataFrame(x) == x.type = "DataFrame"

\* A check that also lets a tuple through.
IsListOrTuple(x) == x.type \in {"list", "tuple"}

\* isinstance(internal_controls, list)
IsList(x) == x.type = "list"

\* isinstance(calibrator, str)
IsStr(x) == x.type = "str"

\* ------------------------------------------------------------------------
\* calculate_avg_cqs
\* ------------------------------------------------------------------------

Key(r) == [sample |-> r.sample, target |-> r.target]

\* Every (sample, target) pair, in lexicographic order.
SortedPairs ==
    [k \in 1..(Len(SampleOrder) * Len(TargetOrder)) |->
        [sample |-> SampleOrder[((k - 1) \div Len(TargetOrder)) + 1],
         target |-> TargetOrder[((k - 1) % Len(TargetOrder)) + 1]]]

\* The cq values of the rows of one (sample, target) group, in row order.
GroupCqs(rows, key) ==
    LET sel == SelectSeq(rows, LAMBDA r : Key(r) = key)
    IN  [i \in 1..Len(sel) |-> sel[i].cq]

\* cqs.groupby(by=["sample", "target"]).agg(func={"cq": ["mean", "std"]})
\*    .droplevel(level=0, axis=1).reset_index():
\* one row per group, the groups in sorted key order.
groupby_agg(rows) ==
    LET keys == SelectSeq(SortedPairs,
                          LAMBDA k : \E i \in DOMAIN rows : Key(rows[i]) = k)
    IN  [i \in 1..Len(keys) |->
            [sample |-> keys[i].sample, target |-> keys[i].target,
             mean |-> Mean(GroupCqs(rows, keys[i])),
             std |-> Std(GroupCqs(rows, keys[i]))]]

\* cqs[["sample", "target"]]
project_keys(rows) == [i \in 1..Len(rows) |-> Key(rows[i])]

\* Every row kept, duplicates included.
keep_all(rows) == rows

\* .drop_duplicates().reset_index(drop=True): the first occurrence of every
\* row, in row order.
drop_duplicates(rows) ==
    LET F[i \in 0..Len(rows)] ==
            IF i = 0 THEN << >>
            ELSE IF \A j \in 1..(i - 1) : rows[j] # rows[i]
                 THEN Append(F[i - 1], rows[i])
                 ELSE F[i - 1]
    IN  F[Len(rows)]

RECURSIVE Flatten(_)
Flatten(ss) == IF ss = << >> THEN << >> ELSE Head(ss) \o Flatten(Tail(ss))

\* left.merge(right=right, how="left", on=["sample", "target"]): for every
\* left row in order, one output row per matching right row, or one row with
\* NaN in the right's columns when nothing matches.
merge_on_sample_target(left, right) ==
    Flatten([i \in 1..Len(left) |->
        LET m == SelectSeq(right, LAMBDA r : Key(r) = Key(left[i]))
        IN  IF m = << >>
            THEN <<[sample |-> left[i].sample, target |-> left[i].target,
                    mean |-> NaN, std |-> NaN]>>
            ELSE [j \in 1..Len(m) |->
                    [sample |-> left[i].sample, target |-> left[i].target,
                     mean |-> m[j].mean, std |-> m[j].std]]])

\* The grouped statistics returned as they are, in sorted key order.
avg_cqs_sorted(rows) == groupby_agg(rows)

\* Lines 30-47 on a table that has the three columns.
avg_cqs_table(rows) ==
    merge_on_sample_target(drop_duplicates(project_keys(rows)),
                           groupby_agg(rows))

StepsAvg == <<"groupby", "agg", "drop_duplicates", "merge">>

calculate_avg_cqs(cqs) ==
    IF ~IsDataFrame(cqs) THEN Raise("TypeError", << >>)
    ELSE IF ~({"sample", "target"} \subseteq cqs.columns)
         THEN Raise("KeyError", << >>)            \* groupby: no such key
    ELSE IF "cq" \notin cqs.columns
         THEN Raise("KeyError", <<"groupby">>)    \* agg: no such column
    ELSE Return(avg_cqs_table(cqs.rows), StepsAvg)

\* ------------------------------------------------------------------------
\* calculate_d_cqs
\* ------------------------------------------------------------------------

\* series.isin(internal_controls), for one value
isin(x, internal_controls) ==
    \E i \in DOMAIN internal_controls.items : internal_controls.items[i] = x

\* No filter: every row of the table.
all_rows(avg_cqs, internal_controls) == avg_cqs

\* avg_cqs[avg_cqs["target"].isin(internal_controls)]
control_rows(avg_cqs, internal_controls) ==
    SelectSeq(avg_cqs, LAMBDA r : isin(r.target, internal_controls))

\* .groupby(by=["sample"]).agg(func={"mean": "mean"})
\*    .rename(mapper={"mean": "mean_ic"}, axis=1):
\* one row per sample of `rows`, in sorted order, with the mean of its means.
groupby_sample_mean(rows) ==
    LET keys == SelectSeq(SampleOrder,
                          LAMBDA s : \E i \in DOMAIN rows : rows[i].sample = s)
    IN  [i \in 1..Len(keys) |->
            LET sel == SelectSeq(rows, LAMBDA r : r.sample = keys[i])
            IN  [sample |-> keys[i],
                 mean_ic |-> Mean([j \in 1..Len(sel) |-> sel[j].mean])]]

\* avg_cqs.merge(right=avg_ic_cqs, how="left", on="sample")
merge_on_sample(left, right) ==
    Flatten([i \in 1..Len(left) |->
        LET m == SelectSeq(right, LAMBDA r : r.sample = left[i].sample)
            l == left[i]
        IN  IF m = << >>
            THEN <<[sample |-> l.sample, target |-> l.target, mean |-> l.mean,
                    std |-> l.std, mean_ic |-> NaN]>>
            ELSE [j \in 1..Len(m) |->
                    [sample |-> l.sample, target |-> l.target,
                     mean |-> l.mean, std |-> l.std,
                     mean_ic |-> m[j].mean_ic]]])

\* The difference on every row, control or not.
d_cq_unmasked(r, internal_controls) == Sub(r.mean, r.mean_ic)

\* np.where(~avg_cqs["target"].isin(internal_controls),
\*          avg_cqs["mean"] - avg_cqs["mean_ic"], np.NaN), for one row
d_cq_where(r, internal_controls) ==
    IF ~isin(r.target, internal_controls)
    THEN Sub(r.mean, r.mean_ic)
    ELSE NaN

\* avg_cqs["d_cq"] = ...
assign_d_cq(rows, internal_controls) ==
    [i \in 1..Len(rows) |->
        [sample |-> rows[i].sample, target |-> rows[i].target,
         mean |-> rows[i].mean, std |-> rows[i].std,
         mean_ic |-> rows[i].mean_ic,
         d_cq |-> d_cq_where(rows[i], internal_controls)]]

\* The control mean of a sample taken over its pooled raw control replicates.
d_cqs_table_pooled(avg_cqs, rows, internal_controls) ==
    LET ctl == SelectSeq(rows, LAMBDA r : isin(r.target, internal_controls))
        keys == SelectSeq(SampleOrder,
                          LAMBDA s : \E i \in DOMAIN ctl : ctl[i].sample = s)
        pooled == [i \in 1..Len(keys) |->
                     LET sel == SelectSeq(ctl, LAMBDA r : r.sample = keys[i])
                     IN  [sample |-> keys[i],
                          mean_ic |-> Mean([j \in 1..Len(sel) |-> sel[j].cq])]]
    IN  assign_d_cq(merge_on_sample(avg_cqs, pooled), internal_controls)

\* Lines 95-117: `avg_cqs` is the table calculate_avg_cqs returned for the raw
\* rows `rows`, which this code does not read again.
d_cqs_table(avg_cqs, rows, internal_controls) ==
    assign_d_cq(
        merge_on_sample(
            avg_cqs,
            groupby_sample_mean(control_rows(avg_cqs, internal_controls))),
        internal_controls)

StepsD == <<"isin", "groupby", "agg", "merge", "where">>

calculate_d_cqs(cqs, internal_controls) ==
    IF ~IsDataFrame(cqs) THEN Raise("TypeError", << >>)
    ELSE IF ~IsList(internal_controls) THEN Raise("TypeError", << >>)
    ELSE LET avg == calculate_avg_cqs(cqs)
         IN  IF avg.raised # "" THEN avg
             ELSE Return(d_cqs_table(avg.rows, cqs.rows, internal_controls),
                         avg.steps \o StepsD)

\* ------------------------------------------------------------------------
\* calculate_dd_cqs
\* ------------------------------------------------------------------------

\* Line 141 reads the global name `q`.  The module binds no such name (its
\* only imports are `np` and `pd`), so the read raises NameError, and lines
\* 143-163 never run.
calculate_dd_cqs(cqs, internal_controls, calibrator_) ==
    IF ~IsDataFrame(cqs) THEN Raise("TypeError", << >>)
    ELSE IF ~IsList(internal_controls) THEN Raise("TypeError", << >>)
    ELSE IF ~IsStr(calibrator_) THEN Raise("TypeError", << >>)
    ELSE Raise("NameError", << >>)

\* ------------------------------------------------------------------------
\* The calls
\* ------------------------------------------------------------------------

VARIABLES
    cqs,                \* the table of raw readings the caller holds
    op,                 \* the function called, "" before the call
    internal_controls,  \* the `internal_controls` argument of the call
    calibrator,         \* the `calibrator` argument of the call
    result              \* what the call produced

vars == <<cqs, op, internal_controls, calibrator, result>>

Init ==
    /\ cqs \in CqsChoices
    /\ op = ""
    /\ internal_controls = NotPassed
    /\ calibrator = NoCalibrator
    /\ result = NoResult

CallAvg ==
    /\ op = ""
    /\ op' = "calculate_avg_cqs"
    /\ result' = calculate_avg_cqs(cqs)
    /\ UNCHANGED <<cqs, internal_controls, calibrator>>

CallD ==
    /\ op = ""
    /\ \E ic \in InternalControlsChoices :
          /\ internal_controls' = ic
          /\ result' = calculate_d_cqs(cqs, ic)
    /\ op' = "calculate_d_cqs"
    /\ UNCHANGED <<cqs, calibrator>>

CallDD ==
    /\ op = ""
    /\ \E ic \in InternalControlsChoices, cal \in CalibratorChoices :
          /\ internal_controls' = ic
          /\ calibrator' = cal
          /\ result' = calculate_dd_cqs(cqs, ic, cal)
    /\ op' = "calculate_dd_cqs"
    /\ UNCHANGED cqs

Next == CallAvg \/ CallD \/ CallDD

Spec == Init /\ [][Next]_vars


\* ------------------------------------------------------------------------
\* Vocabulary of the properties
\* ------------------------------------------------------------------------

\* `cqs` is a table with the three required columns.
WellFormed == cqs.type = "DataFrame" /\ cqs.columns = AllColumns

\* The call was of `f` and returned a table.
Returned(f) == op = f /\ result.raised = ""

Out == result.rows
In == cqs.rows

\* The targets named by the `internal_controls` argument.
Controls == Range(internal_controls.items)

\* The samples of the raw table.
SamplesOfInput == {In[i].sample : i \in DOMAIN In}

\* The position at which a (sample, target) pair first occurs in the raw table.
FirstOccurrence(key) ==
    CHOOSE i \in DOMAIN In :
        /\ Key(In[i]) = key
        /\ \A j \in 1..(i - 1) : Key(In[j]) # key

\* The raw rows of a pair, and those of them with a cq that is not NaN.
Replicates(key) == {i \in DOMAIN In : Key(In[i]) = key}
ValidReplicates(key) == {i \in Replicates(key) : ~In[i].cq.nan}

RECURSIVE SumCq(_)
SumCq(I) ==
    IF I = {} THEN Rat(0, 1)
    ELSE LET i == CHOOSE i \in I : TRUE
         IN  Add(In[i].cq, SumCq(I \ {i}))

\* The output rows of sample s whose target is an internal control.
ControlRowsOf(s) ==
    {j \in DOMAIN Out : Out[j].sample = s /\ Out[j].target \in Controls}

RECURSIVE SumMean(_)
SumMean(J) ==
    IF J = {} THEN Rat(0, 1)
    ELSE LET j == CHOOSE j \in J : TRUE
         IN  Add(Out[j].mean, SumMean(J \ {j}))

\* The mean of the raw control replicates of sample s, pooled over its
\* control targets.
PooledControlMean(s) ==
    LET I == {i \in DOMAIN In : /\ In[i].sample = s
                                /\ In[i].target \in Controls
                                /\ ~In[i].cq.nan}
    IN  IF I = {} THEN NaN ELSE DivCount(SumCq(I), Cardinality(I))

\* ------------------------------------------------------------------------
\* C1
\* ------------------------------------------------------------------------

\* C1: calculate_avg_cqs on a table with the three columns returns a table
\* with exactly one row per distinct (sample, target) pair of the input: every
\* pair of the input has a row, every row's pair is in the input, and no two
\* rows have the same pair.
C1_OneRowPerPair ==
    (op = "calculate_avg_cqs" /\ WellFormed) =>
        /\ result.raised = ""
        /\ \A i \in DOMAIN In : \E j \in DOMAIN Out : Key(Out[j]) = Key(In[i])
        /\ \A j \in DOMAIN Out : \E i \in DOMAIN In : Key(In[i]) = Key(Out[j])
        /\ \A j, k \in DOMAIN Out : j # k => Key(Out[j]) # Key(Out[k])

\* A call on three rows of which two are replicates of one pair.
C1_Witness ==
    /\ Returned("calculate_avg_cqs") /\ WellFormed
    /\ Len(In) = 3 /\ Len(Out) = 2
    /\ Key(In[1]) = Key(In[3]) /\ Key(In[1]) # Key(In[2])

\* ------------------------------------------------------------------------
\* C2
\* ------------------------------------------------------------------------

\* C2: the rows of the table calculate_avg_cqs returns are in the order in
\* which their (sample, target) pairs first occur in the input.
C2_FirstOccurrenceOrder ==
    (Returned("calculate_avg_cqs") /\ WellFormed) =>
        \A j, k \in DOMAIN Out :
            j < k => FirstOccurrence(Key(Out[j])) < FirstOccurrence(Key(Out[k]))

\* A call whose input has (S2, GeneX) before (S1, Actin), the reverse of the
\* sorted order, with a replicate of the first pair after the second.
C2_Witness ==
    /\ Returned("calculate_avg_cqs") /\ WellFormed
    /\ Len(In) = 3 /\ Len(Out) = 2
    /\ Key(In[1]) = [sample |-> "S2", target |-> "GeneX"]
    /\ Key(In[2]) = [sample |-> "S1", target |-> "Actin"]
    /\ Key(In[3]) = Key(In[1])
    /\ Key(Out[1]) = Key(In[1]) /\ Key(Out[2]) = Key(In[2])

\* ------------------------------------------------------------------------
\* C7
\* ------------------------------------------------------------------------

\* C7, as claimed: in the table calculate_avg_cqs returns, a pair with at
\* least one NaN replicate has a NaN mean and a NaN std.
C7_NaNPoisons ==
    (Returned("calculate_avg_cqs") /\ WellFormed) =>
        \A j \in DOMAIN Out :
            (\E i \in Replicates(Key(Out[j])) : In[i].cq.nan) =>
                Out[j].mean.nan /\ Out[j].std.nan

\* C7, amended: NaN replicates are left out of a pair's statistics.  The mean
\* of a pair is the mean of its replicates that are not NaN, and is NaN only
\* when all of them are NaN; the std is NaN exactly when fewer than two
\* replicates are not NaN.
C7_NaNSkipped ==
    (Returned("calculate_avg_cqs") /\ WellFormed) =>
        \A j \in DOMAIN Out :
            LET V == ValidReplicates(Key(Out[j]))
            IN  /\ V = {} => Out[j].mean.nan
                /\ V # {} => Out[j].mean = DivCount(SumCq(V), Cardinality(V))
                /\ Out[j].std.nan <=> Cardinality(V) < 2

\* A pair with a NaN replicate and two valid ones, whose mean and std are
\* both defined.
C7_Witness ==
    /\ Returned("calculate_avg_cqs") /\ WellFormed
    /\ \E j \in DOMAIN Out :
          /\ \E i \in Replicates(Key(Out[j])) : In[i].cq.nan
          /\ Cardinality(ValidReplicates(Key(Out[j]))) = 2
          /\ ~Out[j].mean.nan /\ ~Out[j].std.nan

\* ------------------------------------------------------------------------
\* C3
\* ------------------------------------------------------------------------

\* C3, as claimed: in the table calculate_d_cqs returns, d_cq is NaN on every
\* row whose target is an internal control, and is not NaN on every other row
\* whose mean_ic is not NaN.
C3_DefinedWheneverMeanIc ==
    Returned("calculate_d_cqs") =>
        \A j \in DOMAIN Out :
            /\ Out[j].target \in Controls => Out[j].d_cq.nan
            /\ (Out[j].target \notin Controls /\ ~Out[j].mean_ic.nan)
                   => ~Out[j].d_cq.nan

\* C3, amended: d_cq is NaN on every row whose target is an internal control,
\* and is not NaN on every other row whose mean and mean_ic are both not NaN;
\* a row whose own mean is NaN has a NaN d_cq.
C3_DefinedWheneverBoth ==
    Returned("calculate_d_cqs") =>
        \A j \in DOMAIN Out :
            /\ Out[j].target \in Controls => Out[j].d_cq.nan
            /\ (/\ Out[j].target \notin Controls
                /\ ~Out[j].mean_ic.nan
                /\ ~Out[j].mean.nan) => ~Out[j].d_cq.nan
            /\ Out[j].mean.nan => Out[j].d_cq.nan

\* A returned table with a control row whose mean is defined and a row of
\* another target whose d_cq is defined.
C3_Witness ==
    /\ Returned("calculate_d_cqs")
    /\ \E j, k \in DOMAIN Out :
          /\ Out[j].target \in Controls /\ ~Out[j].mean.nan /\ Out[j].d_cq.nan
          /\ Out[k].target \notin Controls /\ ~Out[k].d_cq.nan

\* ------------------------------------------------------------------------
\* C8
\* ------------------------------------------------------------------------

\* C8, as claimed: in the table calculate_d_cqs returns, mean_ic is the same
\* on all rows of a sample and is the arithmetic mean of the means of all the
\* internal-control rows of that sample, each counted once.
C8_MeanOfAllControlMeans ==
    Returned("calculate_d_cqs") =>
        \A j \in DOMAIN Out :
            LET J == ControlRowsOf(Out[j].sample)
            IN  Out[j].mean_ic =
                    IF J = {} THEN NaN
                    ELSE DivCount(SumMean(J), Cardinality(J))

\* C8, amended: mean_ic is the same on all rows of a sample and is the
\* arithmetic mean of the means, each counted once, of those internal-control
\* rows of the sample whose mean is not NaN (NaN when there is none); it is
\* not the mean of the pooled raw control replicates.
C8_MeanOfDefinedControlMeans ==
    Returned("calculate_d_cqs") =>
        \A j \in DOMAIN Out :
            LET J == {k \in ControlRowsOf(Out[j].sample) : ~Out[k].mean.nan}
            IN  Out[j].mean_ic =
                    IF J = {} THEN NaN
                    ELSE DivCount(SumMean(J), Cardinality(J))

\* A sample with two control targets of different replicate counts, where the
\* mean of means differs from the pooled mean of the raw replicates.
C8_Witness ==
    /\ Returned("calculate_d_cqs")
    /\ \E j \in DOMAIN Out :
          /\ Cardinality(ControlRowsOf(Out[j].sample)) = 2
          /\ ~Out[j].mean_ic.nan
          /\ ~PooledControlMean(Out[j].sample).nan
          /\ Out[j].mean_ic # PooledControlMean(Out[j].sample)

\* ------------------------------------------------------------------------
\* C9
\* ------------------------------------------------------------------------

\* The targets of sample s in the raw table.
TargetsOf(s) == {In[i].target : i \in {k \in DOMAIN In : In[k].sample = s}}

\* C9, as claimed: calculate_d_cqs with a non-empty list of internal controls
\* returns without error, and a sample for which one of the named targets is
\* absent from the data has a NaN mean_ic and a NaN d_cq on all its rows.
C9_AnyAbsentControl ==
    (op = "calculate_d_cqs" /\ WellFormed /\ internal_controls.type = "list"
        /\ Controls # {}) =>
        /\ result.raised = ""
        /\ \A j \in DOMAIN Out :
              (\E t \in Controls : t \notin TargetsOf(Out[j].sample)) =>
                  Out[j].mean_ic.nan /\ Out[j].d_cq.nan

\* C9, amended: calculate_d_cqs with a list of internal controls returns
\* without error; a sample for which all of the named targets are absent from
\* the data has a NaN mean_ic and a NaN d_cq on all its rows; a sample for
\* which only some are absent has the mean over those present, which is not
\* NaN as soon as one of them has a replicate that is not NaN.
C9_AllControlsAbsent ==
    (op = "calculate_d_cqs" /\ WellFormed /\ internal_controls.type = "list") =>
        /\ result.raised = ""
        /\ \A j \in DOMAIN Out :
              LET s == Out[j].sample
              IN  /\ (Controls \cap TargetsOf(s) = {}) =>
                         Out[j].mean_ic.nan /\ Out[j].d_cq.nan
                  /\ (\E t \in Controls :
                         ValidReplicates([sample |-> s, target |-> t]) # {})
                         => ~Out[j].mean_ic.nan

\* A call naming Actin, on data where one sample has Actin and another has
\* only other targets.
C9_Witness ==
    /\ Returned("calculate_d_cqs") /\ Controls # {}
    /\ \E j, k \in DOMAIN Out :
          /\ Controls \cap TargetsOf(Out[j].sample) = {}
          /\ Out[j].mean_ic.nan /\ Out[j].d_cq.nan /\ ~Out[j].mean.nan
          /\ ~Out[k].mean_ic.nan

\* ------------------------------------------------------------------------
\* C6
\* ------------------------------------------------------------------------

\* The arguments the called function takes, by its signature.
TakesControls == op \in {"calculate_d_cqs", "calculate_dd_cqs"}
TakesCalibrator == op = "calculate_dd_cqs"

WrongType ==
    \/ cqs.type # "DataFrame"
    \/ TakesControls /\ internal_controls.type # "list"
    \/ TakesCalibrator /\ calibrator.type # "str"

LacksColumn == cqs.type = "DataFrame" /\ cqs.columns # AllColumns

RejectedUpFront ==
    /\ result.raised = "TypeError"
    /\ result.steps = << >>
    /\ result.rows = << >>

\* C6, as claimed: a call of any of the three functions with an argument of
\* the wrong type, or with a table that lacks a required column, raises the
\* validation error before any aggregation, join or arithmetic step.
C6_ShapeOrTypeRejected ==
    (op # "" /\ (WrongType \/ LacksColumn)) => RejectedUpFront

\* C6, amended: a call of any of the three functions in which `cqs` is not a
\* DataFrame, `internal_controls` is not a list or `calibrator` is not a str
\* raises TypeError before any aggregation, join or arithmetic step, and no
\* table is produced.  (The columns of the table are not validated.)
C6_WrongTypeRejected ==
    (op # "" /\ WrongType) => RejectedUpFront

\* A call of calculate_d_cqs on a well-formed table with a tuple of controls.
C6_Witness ==
    /\ op = "calculate_d_cqs" /\ WellFormed
    /\ internal_controls.type = "tuple"
    /\ RejectedUpFront

\* ------------------------------------------------------------------------
\* C4, C5, C10: calculate_dd_cqs
\* ------------------------------------------------------------------------

\* A call of calculate_dd_cqs with a table of the three columns, a non-empty
\* list of internal controls and a string as calibrator.
WellTypedDD ==
    /\ op = "calculate_dd_cqs" /\ WellFormed
    /\ internal_controls.type = "list" /\ Controls # {}
    /\ calibrator.type = "str"

\* C4: a call of calculate_dd_cqs whose data holds the calibrator with a
\* target that is not an internal control returns a table in which every row
\* of the calibrator with such a target has dd_cq = 0 and fc = 1.
C4_CalibratorRowIsBaseline ==
    (/\ WellTypedDD
     /\ \E i \in DOMAIN In : /\ In[i].sample = calibrator.value
                             /\ In[i].target \notin Controls) =>
        /\ result.raised = ""
        /\ \E j \in DOMAIN Out : /\ Out[j].sample = calibrator.value
                                 /\ Out[j].target \notin Controls
        /\ \A j \in DOMAIN Out :
              (Out[j].sample = calibrator.value /\ Out[j].target \notin Controls)
                  => Out[j].dd_cq = Rat(0, 1) /\ Out[j].fc = Rat(1, 1)

\* C5: a call of calculate_dd_cqs with a calibrator that matches no sample of
\* the data does not raise, and returns a table with a row per pair of the
\* data, dd_cq and fc being NaN on every one of them.
C5_AbsentCalibratorAllNaN ==
    (WellTypedDD /\ calibrator.value \notin SamplesOfInput) =>
        /\ result.raised = ""
        /\ Len(Out) > 0
        /\ \A j \in DOMAIN Out : Out[j].dd_cq.nan /\ Out[j].fc.nan

\* C10: a call of calculate_dd_cqs returns the rows calculate_d_cqs returns
\* for the same data, in the same order, each with a d_cq_ic that depends on
\* its target only: the d_cq of the row of the calibrator with that target.
C10_BaselinePerTarget ==
    WellTypedDD =>
        LET d == calculate_d_cqs(cqs, internal_controls).rows
        IN  /\ result.raised = ""
            /\ Len(Out) = Len(d)
            /\ \A j \in DOMAIN Out :
                  /\ Key(Out[j]) = Key(d[j]) /\ Out[j].d_cq = d[j].d_cq
                  /\ \A k \in DOMAIN d :
                        (d[k].sample = calibrator.value
                            /\ d[k].target = Out[j].target)
                            => Out[j].d_cq_ic = d[k].d_cq

=============================================================================
